---- MODULE Spec2Model ----
(***************************************************************************)
(* SwiftConvert backend (server.js): the conversion endpoint with its      *)
(* Pandoc -> LibreOffice fallback chain, the upload / output directories,  *)
(* the download endpoint and its deferred deletion timer; the React client *)
(* (SwiftConvert) in front of it; and the OCR + Convert job of the         *)
(* endpoint the client posts to when OCR is on.                            *)
(*                                                                         *)
(* Strings that the code takes apart (file names, paths, the :filename     *)
(* parameter) are sequences of tokens; "/" and "." are tokens of their     *)
(* own, every other token is a piece of text without "/" or ".".           *)
(***************************************************************************)
EXTENDS Integers, Sequences, FiniteSets, TLC

\* ------------------------------------------------------------------ bounds
NumReq == 2          \* conversion requests
MaxDownloads == 1    \* downloads that reach res.download
MaxTicks == 1        \* steps of the clock

\* ------------------------------------------------------- program constants
DeleteDelay == 5            \* seconds: setTimeout(..., 5000)
RetentionHorizon == 86400   \* seconds: "deleted after 24 hours"

Req == 1..NumReq
Dl == 1..MaxDownloads
\* ... and one more, for the runs in which two downloads overlap
DlAll == 1..(MaxDownloads + 1)

SEP == "/"
DOT == "."

\* ------------------------------------------------------------ string helpers
RECURSIVE LastIndexOf(_, _)
LastIndexOf(s, c) ==
    IF s = <<>> THEN 0
    ELSE IF s[Len(s)] = c THEN Len(s)
    ELSE LastIndexOf(SubSeq(s, 1, Len(s) - 1), c)

\* String.prototype.startsWith
startsWith(s, prefix) ==
    /\ Len(prefix) <= Len(s)
    /\ SubSeq(s, 1, Len(prefix)) = prefix

endsWith(s, suffix) ==
    /\ Len(suffix) <= Len(s)
    /\ SubSeq(s, Len(s) - Len(suffix) + 1, Len(s)) = suffix

\* String.prototype.slice(1)
slice1(s) == IF s = <<>> THEN <<>> ELSE Tail(s)

LowerToken(t) ==
    CASE t = "DOCX" -> "docx"
      [] t = "PDF" -> "pdf"
      [] t = "TXT" -> "txt"
      [] t = "JPG" -> "jpg"
      [] t = "MD" -> "md"
      [] t = "EXE" -> "exe"
      [] t = "DOC" -> "doc"
      [] t = "HTML" -> "html"
      [] t = "JPEG" -> "jpeg"
      [] t = "PNG" -> "png"
      [] t = "CSV" -> "csv"
      [] t = "XLSX" -> "xlsx"
      [] t = "XLS" -> "xls"
      [] t = "ODS" -> "ods"
      [] t = "ODT" -> "odt"
      [] t = "RTF" -> "rtf"
      [] t = "PPTX" -> "pptx"
      [] t = "ODP" -> "odp"
      [] OTHER -> t

UpperToken(t) ==
    CASE t = "docx" -> "DOCX"
      [] t = "pdf" -> "PDF"
      [] t = "txt" -> "TXT"
      [] t = "jpg" -> "JPG"
      [] t = "md" -> "MD"
      [] t = "exe" -> "EXE"
      [] t = "doc" -> "DOC"
      [] t = "html" -> "HTML"
      [] t = "jpeg" -> "JPEG"
      [] t = "png" -> "PNG"
      [] t = "csv" -> "CSV"
      [] t = "xlsx" -> "XLSX"
      [] t = "xls" -> "XLS"
      [] t = "ods" -> "ODS"
      [] t = "odt" -> "ODT"
      [] t = "rtf" -> "RTF"
      [] t = "pptx" -> "PPTX"
      [] t = "odp" -> "ODP"
      [] OTHER -> t

\* String.prototype.toLowerCase
toLowerCase(s) == [i \in 1..Len(s) |-> LowerToken(s[i])]

\* String.prototype.toUpperCase
toUpperCase(s) == [i \in 1..Len(s) |-> UpperToken(s[i])]

\* ------------------------------------------------------------- path (POSIX)
RECURSIVE StripTrailingSep(_)
StripTrailingSep(p) ==
    IF p # <<>> /\ p[Len(p)] = SEP
    THEN StripTrailingSep(SubSeq(p, 1, Len(p) - 1))
    ELSE p

\* path.basename(p)
basename(p) ==
    LET q == StripTrailingSep(p)
        i == LastIndexOf(q, SEP)
    IN  SubSeq(q, i + 1, Len(q))

\* path.extname(p): from the last "." of the base name, "" when there is none
\* or when it is the first character of the base name
extname(p) ==
    LET b == basename(p)
        i == LastIndexOf(b, DOT)
    IN  IF i <= 1 \/ b = <<DOT, DOT>> THEN <<>> ELSE SubSeq(b, i, Len(b))

\* path.basename(p, ext)
basenameExt(p, ext) ==
    LET b == basename(p)
    IN  IF ext # <<>> /\ ext # b /\ endsWith(b, ext)
        THEN SubSeq(b, 1, Len(b) - Len(ext))
        ELSE b

\* the segments between the separators, empty ones dropped
RECURSIVE Segments(_)
Segments(p) ==
    IF p = <<>> THEN <<>>
    ELSE IF p[1] = SEP THEN Segments(Tail(p))
    ELSE LET rest == Segments(Tail(p))
             glued == Len(p) > 1 /\ p[2] # SEP
         IN  IF glued
             THEN <<(<<p[1]>> \o rest[1])>> \o Tail(rest)
             ELSE <<(<<p[1]>>)>> \o rest

\* "." dropped, ".." removes the segment before it (none above the root)
RECURSIVE Collapse(_, _)
Collapse(segs, acc) ==
    IF segs = <<>> THEN acc
    ELSE IF segs[1] = <<DOT>> THEN Collapse(Tail(segs), acc)
    ELSE IF segs[1] = <<DOT, DOT>>
         THEN Collapse(Tail(segs),
                       IF acc = <<>> THEN acc ELSE SubSeq(acc, 1, Len(acc) - 1))
    ELSE Collapse(Tail(segs), Append(acc, segs[1]))

RECURSIVE Glue(_)
Glue(segs) ==
    IF segs = <<>> THEN <<>>
    ELSE <<SEP>> \o segs[1] \o Glue(Tail(segs))

\* path.normalize of an absolute path, without a trailing separator
normalize(p) ==
    LET segs == Collapse(Segments(p), <<>>)
    IN  IF segs = <<>> THEN <<SEP>> ELSE Glue(segs)

\* path.join(dir, name)
join(dir, name) == normalize(dir \o <<SEP>> \o name)

\* path.resolve(p), p absolute
resolve(p) == normalize(p)

\* --------------------------------------------------------------- directories
__dirname == <<SEP, "app">>
uploadDir == join(__dirname, <<"uploads">>)
outputDir == join(__dirname, <<"converted">>)
serverFile == join(__dirname, <<"server", DOT, "js">>)

Dirs == {<<SEP>>, __dirname, uploadDir, outputDir}

\* --------------------------------------------------------------------- state
VARIABLES
    req,         \* req[r]: one /api/convert request
    files,       \* the file system
    nextUuid,    \* the next value of uuidv4()
    downloads,   \* downloads[d]: one GET /api/download that reached res.download
    lastDl,      \* the latest answer of the download endpoint
    now,         \* the clock, in seconds
    ticks,       \* steps the clock has made
    locked,      \* the paths another process holds open (unlink gives EBUSY)
    lastFormats, \* the latest answer of GET /api/formats
    client,      \* the React client: its state, its fetches and intervals
    job          \* the OCR + Convert job of POST /api/ocr-and-convert

vars == <<req, files, nextUuid, downloads, lastDl, now, ticks, locked, lastFormats, client, job>>

\* ------------------------------------------------------------- file system
\* files: path -> content.  kind is "upload", "converted", "partial" (what a
\* failed engine run left behind) or "source"; of is the request whose upload
\* the bytes come from; by is who wrote them; mtime is the time of writing.
Content(kind, of, by, t) == [kind |-> kind, of |-> of, by |-> by, mtime |-> t]

existsSync(fs, p) == p \in DOMAIN fs \/ p \in Dirs

Remove(fs, p) == [q \in DOMAIN fs \ {p} |-> fs[q]]

WriteFile(fs, p, c) == [q \in DOMAIN fs \cup {p} |-> IF q = p THEN c ELSE fs[q]]

\* fs.unlinkSync(p): throws ENOENT when p is absent and EBUSY when another
\* process holds the file; the file stays when it throws
unlinkSync(fs, p) ==
    [threw |-> p \notin DOMAIN fs \/ p \in locked,
     code |-> IF p \notin DOMAIN fs THEN "ENOENT"
              ELSE IF p \in locked THEN "EBUSY" ELSE "",
     files |-> IF p \in locked THEN fs ELSE Remove(fs, p)]

\* ------------------------------------------------------------------ registry
\* a slip: a format that no engine handles
formatSupportOrphanMd ==
    [pdf  |-> [pandoc |-> "pdf",      libreoffice |-> TRUE],
     docx |-> [pandoc |-> "docx",     libreoffice |-> TRUE],
     md   |-> [pandoc |-> "",         libreoffice |-> FALSE],
     xlsx |-> [pandoc |-> "",         libreoffice |-> TRUE]]

formatSupport ==
    [pdf  |-> [pandoc |-> "pdf",      libreoffice |-> TRUE],
     docx |-> [pandoc |-> "docx",     libreoffice |-> TRUE],
     doc  |-> [pandoc |-> "doc",      libreoffice |-> TRUE],
     odt  |-> [pandoc |-> "odt",      libreoffice |-> TRUE],
     rtf  |-> [pandoc |-> "rtf",      libreoffice |-> TRUE],
     txt  |-> [pandoc |-> "plain",    libreoffice |-> TRUE],
     md   |-> [pandoc |-> "markdown", libreoffice |-> FALSE],
     html |-> [pandoc |-> "html",     libreoffice |-> TRUE],
     xlsx |-> [pandoc |-> "",         libreoffice |-> TRUE],
     xls  |-> [pandoc |-> "",         libreoffice |-> TRUE],
     ods  |-> [pandoc |-> "",         libreoffice |-> TRUE],
     csv  |-> [pandoc |-> "",         libreoffice |-> TRUE],
     pptx |-> [pandoc |-> "",         libreoffice |-> TRUE],
     ppt  |-> [pandoc |-> "",         libreoffice |-> TRUE],
     odp  |-> [pandoc |-> "",         libreoffice |-> TRUE]]

\* formatSupport[fmt]?.pandoc  ("" stands for false / undefined)
PandocName(fmt) ==
    IF Len(fmt) = 1 /\ fmt[1] \in DOMAIN formatSupport
    THEN formatSupport[fmt[1]].pandoc ELSE ""

\* formatSupport[fmt]?.libreoffice
LibreCapable(fmt) ==
    /\ Len(fmt) = 1
    /\ fmt[1] \in DOMAIN formatSupport
    /\ formatSupport[fmt[1]].libreoffice

\* a slip: only the target format is looked up
canUsePandocTargetOnly(inputExt, toFormat) == PandocName(toFormat) # ""

canUsePandoc(inputExt, toFormat) ==
    PandocName(inputExt) # "" /\ PandocName(toFormat) # ""

\* a slip: || for &&
canUseLibreOfficeEither(inputExt, toFormat) ==
    LibreCapable(inputExt) \/ LibreCapable(toFormat)

\* a slip: only the target format is looked up
canUseLibreOfficeTargetOnly(inputExt, toFormat) == LibreCapable(toFormat)

canUseLibreOffice(inputExt, toFormat) ==
    LibreCapable(inputExt) /\ LibreCapable(toFormat)

\* getFileExtension
getFileExtension(filename) == toLowerCase(extname(filename))

\* -------------------------------------------------------------------- inputs
\* original names of the uploaded files
OrigNames ==
    { <<"report", DOT, "DOCX">>,      \* Pandoc and LibreOffice
      <<"notes", DOT, "md">>,         \* Pandoc only
      <<"sheet", DOT, "xlsx">>,       \* LibreOffice only
      <<"setup", DOT, "exe">> }       \* not in the registry

\* the toFormat field of the body; <<>> is a missing field
ToFormats == { <<>>, <<"pdf">>, <<"md">>, <<"exe">> }

\* what an engine process can do: the event that ends it, its exit code, and
\* what it has written by then
PandocOutcomes ==
    { [event |-> "close", code |-> 0, wrote |-> "full"],
      [event |-> "close", code |-> 1, wrote |-> "none"],
      [event |-> "close", code |-> 1, wrote |-> "partial"],
      [event |-> "error", code |-> 0 - 2, wrote |-> "none"] }

\* ... and with nothing assumed of the program called pandoc: it may also
\* exit with 0 and leave no file
AnyPandocOutcomes ==
    PandocOutcomes \cup { [event |-> "close", code |-> 0, wrote |-> "none"] }

LibreOutcomes ==
    { [event |-> "close", code |-> 0, wrote |-> "full"],
      [event |-> "close", code |-> 0, wrote |-> "none"],
      [event |-> "close", code |-> 1, wrote |-> "none"],
      [event |-> "error", code |-> 0 - 2, wrote |-> "none"] }

\* ------------------------------------------------------------ initial state
NoFile == [present |-> FALSE, originalname |-> <<>>, filename |-> <<>>, path |-> <<>>]
NoResp == [status |-> 0]

\* pc: idle -> stored -> (pandoc | libreoffice)* -> done (answered), or
\* -> unhandled (the handler's promise rejected; no answer is sent); an upload
\* over the size limit goes idle -> receiving -> done.  temp is the file multer
\* is writing, conn the client's connection, hung whether the running engine
\* process will never exit.
InitReq ==
    [pc |-> "idle", file |-> NoFile, toFormat |-> <<>>,
     engines |-> <<>>, unlinks |-> 0, enoent |-> 0, resp |-> NoResp,
     temp |-> <<>>, conn |-> "open", hung |-> FALSE]

\* pc: idle -> sending -> timer (the callback ran without error and set the
\* timer) -> done (the timer fired) or threw (unlinkSync threw in the timer's
\* callback: an uncaught exception), or sending -> failed (the callback got an
\* error).  due is when the timer fires.
IdleDl == [pc |-> "idle", path |-> <<>>, sent |-> "nothing", err |-> FALSE, due |-> 0]
\* status 0: no answer; existed: fs.existsSync(filePath) when it was asked
NoDl == [asked |-> FALSE, status |-> 0, path |-> <<>>, existed |-> FALSE]

\* the client: no file selected; '' is <<>>.  calls are the calls of
\* handleConvert: the file and the endpoint of each, the request it made of
\* the server (0: none), what became of its fetch and of its interval.
\* saved are the files the browser has saved.
NullFile == [name |-> <<>>, size |-> 0]

InitClient ==
    [file |-> NullFile, isConverting |-> FALSE, progress |-> 0,
     isComplete |-> FALSE, ocrEnabled |-> FALSE, showOcrOption |-> FALSE,
     sourceFormat |-> <<>>, targetFormat |-> "PDF", error |-> <<>>,
     convertedFileName |-> <<>>, calls |-> <<>>, saved |-> {}]

\* the OCR + Convert job: none yet
NoTranslation == [attempted |-> FALSE, success |-> FALSE]

NoJob ==
    [stage |-> "None", failedStage |-> "", kind |-> "", translate |-> FALSE,
     targetLang |-> "", language |-> "", pages |-> 0, words |-> 0,
     text |-> "", translation |-> NoTranslation, document |-> "",
     resp |-> NoResp]

Init ==
    /\ req = [r \in Req |-> InitReq]
    /\ files = [p \in {serverFile} |-> Content("source", 0, "deploy", 0)]
    /\ nextUuid = 1
    /\ downloads = [d \in DlAll |-> IdleDl]
    /\ lastDl = NoDl
    /\ now = 0
    /\ ticks = 0
    /\ locked = {}
    /\ lastFormats = {}
    /\ client = InitClient
    /\ job = NoJob

\* uuidv4(): a value no earlier call returned
uuidv4 == ToString(nextUuid)

\* a slip: the upload is stored under the name the client gave
originalNameOnly(originalname) == originalname

\* a slip: `${Date.now()}-${file.originalname}`
timestampName(originalname) == <<ToString(now), "-">> \o originalname

\* multer's filename callback: `${uuidv4()}-${file.originalname}`
uniqueName(originalname) == <<uuidv4, "-">> \o originalname

\* ------------------------------------------------- /api/convert, its pieces
inputPath(rq) == rq.file.path
inputExt(rq) == toLowerCase(slice1(getFileExtension(rq.file.originalname)))

outputFileName(rq) ==
    basenameExt(inputPath(rq), extname(inputPath(rq))) \o <<DOT>> \o rq.toFormat

outputPath(rq) == join(outputDir, outputFileName(rq))

\* the file LibreOffice writes and convertWithLibreOffice looks for
libreOutputFile(inPath, outDir, toFormat) ==
    join(outDir, basenameExt(inPath, extname(inPath)) \o <<DOT>> \o toFormat)

Json(status, body) == [status |-> status, body |-> body]

\* a slip: the catch block answers without the clean-up
CatchBlockLeaks(fs, rq, message) ==
    [files |-> fs,
     rq |-> [rq EXCEPT !.pc = "done",
                       !.resp = Json(500, [error |-> message])]]

\* the catch block of the handler; an unlinkSync that throws in it rejects the
\* handler's promise before res.status(500) is reached
CatchBlock(fs, rq, message) ==
    LET cleanup == rq.file.present /\ existsSync(fs, rq.file.path)
        u == unlinkSync(fs, rq.file.path)
        msg == IF message = <<>> THEN <<"Conversion failed">> ELSE message
    IN  IF cleanup /\ u.threw
        THEN [files |-> fs, rq |-> [rq EXCEPT !.pc = "unhandled"]]
        ELSE [files |-> IF cleanup THEN u.files ELSE fs,
              rq |-> [rq EXCEPT !.pc = "done",
                                !.unlinks = IF cleanup THEN @ + 1 ELSE @,
                                !.resp = Json(500, [error |-> msg])]]

EnoentMessage == <<"ENOENT: no such file or directory, unlink">>
EbusyMessage == <<"EBUSY: resource busy or locked, unlink">>

\* the message of the error unlinkSync throws
UnlinkMessage(code) == IF code = "EBUSY" THEN EbusyMessage ELSE EnoentMessage

\* the request after an unlinkSync that threw
Thrown(rq, code) == [rq EXCEPT !.enoent = IF code = "ENOENT" THEN @ + 1 ELSE @]

\* a slip: the success answer without the name of the file
SuccessTailNoName(fs, rq) ==
    LET u == unlinkSync(fs, inputPath(rq))
    IN  IF u.threw
        THEN CatchBlock(fs, Thrown(rq, u.code), UnlinkMessage(u.code))
        ELSE [files |-> u.files,
              rq |-> [rq EXCEPT !.pc = "done",
                                !.unlinks = @ + 1,
                                !.resp = Json(200, [success |-> TRUE])]]

\* after the engines: unlink the input, answer success
SuccessTail(fs, rq) ==
    LET u == unlinkSync(fs, inputPath(rq))
    IN  IF u.threw
        THEN CatchBlock(fs, Thrown(rq, u.code), UnlinkMessage(u.code))
        ELSE [files |-> u.files,
              rq |-> [rq EXCEPT !.pc = "done",
                                !.unlinks = @ + 1,
                                !.resp = Json(200,
                                    [success |-> TRUE,
                                     fileName |-> outputFileName(rq),
                                     downloadUrl |-> <<SEP, "api", SEP, "download", SEP>>
                                                     \o outputFileName(rq)])]]

Running == [event |-> "none", code |-> 0, wrote |-> "none"]

\* spawn(...): one more engine process of this request.  engines is the record
\* of the processes: how each ended (o), whether its artifact was there then
\* (found), and what became of the adapter's promise (result)
Spawn(rq, engine) ==
    [rq EXCEPT !.pc = engine,
               !.engines = Append(@, [engine |-> engine, result |-> "running",
                                      o |-> Running, found |-> FALSE])]

Settle(rq, result, o, found) ==
    [rq EXCEPT !.engines[Len(rq.engines)] =
        [engine |-> @.engine, result |-> result, o |-> o, found |-> found]]

\* what the process has left at path p when it ends
EngineWrites(fs, o, engine, inPath, p, t) ==
    IF o.wrote = "none" \/ inPath \notin DOMAIN fs THEN fs
    ELSE WriteFile(fs, p,
            Content(IF o.wrote = "full" THEN "converted" ELSE "partial",
                    fs[inPath].of, engine, t))

\* a slip (or a fix): the message without the text of stderr
PandocMessageSummary(o) ==
    IF o.event = "error" THEN <<"spawn pandoc ENOENT">>
    ELSE <<"Pandoc conversion failed">>

\* err.message of the spawn error, or the text the adapter rejects with:
\* `Pandoc conversion failed: ${stderrOutput}`
PandocMessage(o) ==
    IF o.event = "error" THEN <<"spawn pandoc ENOENT">>
    ELSE <<"Pandoc conversion failed: ", "pandoc stderr">>

\* a slip: the test of the exit code inverted
PandocResolvesInverted(o) == o.event = "close" /\ o.code # 0

\* the promise of convertWithPandoc: resolved iff the process closed with 0
PandocResolves(o) == o.event = "close" /\ o.code = 0

LibreMessage(o) ==
    IF o.event = "error" THEN <<"spawn libreoffice ENOENT">>
    ELSE IF o.code = 0 THEN <<"Converted file not found">>
    ELSE <<"LibreOffice conversion failed: ", "libreoffice stderr">>

\* a slip: the test of the exit code inverted
LibreResolvesInverted(fs, o, outFile) ==
    o.event = "close" /\ o.code # 0 /\ existsSync(fs, outFile)

\* a slip: the exit code is not looked at
LibreResolvesAnyExit(fs, o, outFile) ==
    o.event = "close" /\ existsSync(fs, outFile)

\* the promise of convertWithLibreOffice
LibreResolves(fs, o, outFile) ==
    o.event = "close" /\ o.code = 0 /\ existsSync(fs, outFile)

\* a slip: the 400 for a missing toFormat without the unlink of the upload
NoTargetFormatKeepsUpload(fs, rq) ==
    [files |-> fs,
     rq |-> [rq EXCEPT !.pc = "done",
                       !.resp = Json(400, [error |-> <<"Target format not specified">>])]]

\* if (!toFormat): unlink the stored upload, answer 400; an unlinkSync that
\* throws lands in the catch block
NoTargetFormat(fs, rq) ==
    LET u == unlinkSync(fs, rq.file.path)
    IN  IF u.threw
        THEN CatchBlock(fs, Thrown(rq, u.code), UnlinkMessage(u.code))
        ELSE [files |-> u.files,
              rq |-> [rq EXCEPT !.pc = "done",
                                !.unlinks = @ + 1,
                                !.resp = Json(400,
                                    [error |-> <<"Target format not specified">>])]]

\* ------------------------------------------------------------------- actions
\* multer: upload.single('file') stores the upload and parses the body.
\* Requests are numbered in the order in which they arrive.
StoreUpload(r, present, name, fmt) ==
    LET stored == uniqueName(name)
        path == join(uploadDir, stored)
    IN  IF present
        THEN /\ files' = WriteFile(files, path, Content("upload", r, "client", now))
             /\ nextUuid' = nextUuid + 1
             /\ req' = [req EXCEPT ![r].pc = "stored",
                                   ![r].toFormat = fmt,
                                   ![r].file = [present |-> TRUE,
                                                originalname |-> name,
                                                filename |-> stored,
                                                path |-> path]]
        ELSE /\ req' = [req EXCEPT ![r].pc = "stored", ![r].toFormat = fmt]
             /\ UNCHANGED <<files, nextUuid>>

MulterStoreFrom(r, names, fmts) ==
    /\ req[r].pc = "idle"
    /\ \A q \in Req : q < r => req[q].pc # "idle"
    /\ \E present \in BOOLEAN, name \in names, fmt \in fmts :
          /\ ~present => name = <<"report", DOT, "DOCX">>
          /\ StoreUpload(r, present, name, fmt)
    /\ UNCHANGED <<downloads, lastDl, now, ticks, locked, lastFormats, client, job>>

MulterStore(r) == MulterStoreFrom(r, OrigNames, ToFormats)

\* the handler up to its first await
ConvertHandler(r) ==
    /\ req[r].pc = "stored"
    /\ LET rq == req[r]
           noFormat == NoTargetFormat(files, rq)
           caught == CatchBlock(files, rq,
                        <<"Conversion from ">> \o inputExt(rq) \o <<" to ">>
                            \o rq.toFormat \o <<" is not supported">>)
       IN  IF ~rq.file.present
           THEN /\ req' = [req EXCEPT ![r].pc = "done",
                                      ![r].resp = Json(400, [error |-> <<"No file uploaded">>])]
                /\ UNCHANGED files
           ELSE IF rq.toFormat = <<>>
           THEN /\ req' = [req EXCEPT ![r] = noFormat.rq]
                /\ files' = noFormat.files
           ELSE IF canUsePandoc(inputExt(rq), rq.toFormat)
           THEN /\ req' = [req EXCEPT ![r] = Spawn(rq, "pandoc")]
                /\ UNCHANGED files
           ELSE IF canUseLibreOffice(inputExt(rq), rq.toFormat)
           THEN /\ req' = [req EXCEPT ![r] = Spawn(rq, "libreoffice")]
                /\ UNCHANGED files
           ELSE /\ req' = [req EXCEPT ![r] = caught.rq]
                /\ files' = caught.files
    /\ UNCHANGED <<nextUuid, downloads, lastDl, now, ticks, locked, lastFormats, client, job>>

\* the Pandoc process ends; the handler runs on to its next await or its end
PandocEndsWith(r, outcomes) ==
    /\ req[r].pc = "pandoc"
    /\ ~req[r].hung
    /\ \E o \in outcomes :
          LET rq == req[r]
              fs == EngineWrites(files, o, "pandoc", inputPath(rq), outputPath(rq), now)
              found == existsSync(fs, outputPath(rq))
              ok == SuccessTail(fs, Settle(rq, "resolved", o, found))
              failed == Settle(rq, "rejected", o, found)
              caught == CatchBlock(fs, failed, PandocMessage(o))
          IN  IF PandocResolves(o)
              THEN /\ req' = [req EXCEPT ![r] = ok.rq]
                   /\ files' = ok.files
              ELSE IF ~canUseLibreOffice(inputExt(rq), rq.toFormat)
              THEN /\ req' = [req EXCEPT ![r] = caught.rq]
                   /\ files' = caught.files
              ELSE /\ req' = [req EXCEPT ![r] = Spawn(failed, "libreoffice")]
                   /\ files' = fs
    /\ UNCHANGED <<nextUuid, downloads, lastDl, now, ticks, locked, lastFormats, client, job>>

PandocEnds(r) == PandocEndsWith(r, PandocOutcomes)

\* the LibreOffice process ends; the handler runs to its end
LibreOfficeEnds(r) ==
    /\ req[r].pc = "libreoffice"
    /\ ~req[r].hung
    /\ \E o \in LibreOutcomes :
          LET rq == req[r]
              outFile == libreOutputFile(inputPath(rq), outputDir, rq.toFormat)
              fs == EngineWrites(files, o, "libreoffice", inputPath(rq), outFile, now)
              found == existsSync(fs, outFile)
              ok == SuccessTail(fs, Settle(rq, "resolved", o, found))
              caught == CatchBlock(fs, Settle(rq, "rejected", o, found),
                                   LibreMessage(o))
          IN  IF LibreResolves(fs, o, outFile)
              THEN /\ req' = [req EXCEPT ![r] = ok.rq]
                   /\ files' = ok.files
              ELSE /\ req' = [req EXCEPT ![r] = caught.rq]
                   /\ files' = caught.files
    /\ UNCHANGED <<nextUuid, downloads, lastDl, now, ticks, locked, lastFormats, client, job>>

\* ------------------------------------------------------------ /api/download
\* res.download(filePath, ...) started: what `send` finds at filePath
Sent(fs, p) == IF p \in DOMAIN fs THEN fs[p].kind ELSE "directory"

\* the handler of GET /api/download/:filename for one value of the parameter
DownloadHandler(param) ==
    LET filename == basename(param)
        filePath == join(outputDir, filename)
        resolvedPath == resolve(filePath)
        resolvedOutputDir == resolve(outputDir)
    IN  IF ~startsWith(resolvedPath, resolvedOutputDir)
        THEN [status |-> 403, path |-> filePath]
        ELSE IF ~existsSync(files, filePath)
        THEN [status |-> 404, path |-> filePath]
        ELSE [status |-> 200, path |-> filePath]

\* decoded values of the :filename parameter
DownloadParams ==
    {basename(p) : p \in DOMAIN files}
    \cup {outputFileName(req[r]) : r \in {q \in Req : req[q].file.present}}
    \cup {<<DOT, DOT, SEP, "uploads", SEP>> \o req[r].file.filename :
            r \in {q \in Req : req[q].file.present}}
    \cup { <<DOT>>, <<DOT, DOT>>, <<SEP>>,
           <<DOT, DOT, SEP, "server", DOT, "js">> }

\* a request that is answered 403 or 404
DownloadRefused ==
    /\ \E param \in DownloadParams :
          LET h == DownloadHandler(param)
          IN  /\ h.status # 200
              /\ lastDl' = [asked |-> TRUE, status |-> h.status, path |-> h.path,
                            existed |-> existsSync(files, h.path)]
    /\ UNCHANGED <<req, files, nextUuid, downloads, now, ticks, locked, lastFormats, client, job>>

\* a request that reaches res.download: the transfer of a file starts (200), or
\* `send` finds a directory and the callback will get EISDIR (nothing is sent)
DownloadStarts(d) ==
    /\ downloads[d].pc = "idle"
    /\ \A e \in Dl : e < d => downloads[e].pc # "idle"
    /\ \E param \in DownloadParams :
          LET h == DownloadHandler(param)
              sent == Sent(files, h.path)
          IN  /\ h.status = 200
              /\ downloads' = [downloads EXCEPT ![d] =
                     [pc |-> "sending", path |-> h.path, sent |-> sent,
                      err |-> FALSE, due |-> 0]]
              /\ lastDl' = [asked |-> TRUE,
                            status |-> IF sent = "directory" THEN 0 ELSE 200,
                            path |-> h.path, existed |-> TRUE]
    /\ UNCHANGED <<req, files, nextUuid, now, ticks, locked, lastFormats, client, job>>

\* the callback of res.download: without an error it sets the timer
DownloadCallback(d, err) ==
    /\ downloads[d].pc = "sending"
    /\ downloads[d].sent = "directory" => err
    /\ downloads' = [downloads EXCEPT
          ![d].pc = IF err THEN "failed" ELSE "timer",
          ![d].err = err,
          ![d].due = IF err THEN 0 ELSE now + DeleteDelay]
    /\ UNCHANGED <<req, files, nextUuid, lastDl, now, ticks, locked, lastFormats, client, job>>

\* a slip: the timer's callback leaves the file
TimerCallbackKeeps(fs, filePath) == fs

\* the timer's callback: if (fs.existsSync(filePath)) fs.unlinkSync(filePath)
TimerCallback(fs, filePath) ==
    IF existsSync(fs, filePath) THEN unlinkSync(fs, filePath).files ELSE fs

TimerFires(d) ==
    /\ downloads[d].pc = "timer"
    /\ downloads[d].due <= now
    /\ files' = TimerCallback(files, downloads[d].path)
    /\ downloads' = [downloads EXCEPT ![d].pc =
          IF existsSync(files, downloads[d].path)
             /\ unlinkSync(files, downloads[d].path).threw
          THEN "threw" ELSE "done"]
    /\ UNCHANGED <<req, nextUuid, lastDl, now, ticks, locked, lastFormats, client, job>>

\* ---------------------------------------------------------------------- time
PendingDue == {downloads[d].due : d \in {e \in DlAll : downloads[e].pc = "timer"}}

\* the clock is stepped past the retention horizon; the seconds up to a timer
\* are TimerDue's
TickSteps == {RetentionHorizon + 1}

\* time passes, never beyond the moment a pending timer is due and not while
\* a stored upload waits for its handler (express calls it at once)
Tick ==
    /\ ticks < MaxTicks
    /\ \A r \in Req : req[r].pc # "stored"
    /\ \E step \in TickSteps :
          /\ \A due \in PendingDue : now + step <= due
          /\ now' = now + step
    /\ ticks' = ticks + 1
    /\ UNCHANGED <<req, files, nextUuid, downloads, lastDl, locked, lastFormats, client, job>>

\* time passes until the next pending timer is due
TimerDue ==
    /\ PendingDue # {}
    /\ \A due \in PendingDue : now < due
    /\ now' = CHOOSE due \in PendingDue : \A other \in PendingDue : due <= other
    /\ UNCHANGED <<req, files, nextUuid, downloads, lastDl, ticks, locked, lastFormats, client, job>>

\* ------------------------------------------------------ the upload boundary
\* limits: { fileSize: 100 * 1024 * 1024 }
fileSize == 104857600

\* sizes of the uploaded file, in bytes
UploadSizes == {1, fileSize, fileSize + 1}

\* multer, an upload over the limit: the disk storage has begun to write the
\* file under its unique name when the stream reports 'limit'
MulterLimit(r, names) ==
    /\ req[r].pc = "idle"
    /\ \A q \in Req : q < r => req[q].pc # "idle"
    /\ \E size \in UploadSizes, name \in names :
          /\ size > fileSize
          /\ LET path == join(uploadDir, uniqueName(name))
             IN  /\ files' = WriteFile(files, path, Content("truncated", r, "client", now))
                 /\ req' = [req EXCEPT ![r].pc = "receiving", ![r].temp = path]
    /\ nextUuid' = nextUuid + 1
    /\ UNCHANGED <<downloads, lastDl, now, ticks, locked, lastFormats, client, job>>

\* multer removes what it stored and passes MulterError (LIMIT_FILE_SIZE) to
\* express; no error middleware is installed, the default handler answers 500;
\* the route handler is not called
MulterAborts(r) ==
    /\ req[r].pc = "receiving"
    /\ files' = unlinkSync(files, req[r].temp).files
    /\ req' = [req EXCEPT ![r].pc = "done",
                          ![r].resp = Json(500, [error |-> <<"MulterError: File too large">>])]
    /\ UNCHANGED <<nextUuid, downloads, lastDl, now, ticks, locked, lastFormats, client, job>>

\* ------------------------------------------------------------ the environment
\* the running engine process of the request never exits
EngineHangs(r) ==
    /\ req[r].pc \in {"pandoc", "libreoffice"}
    /\ ~req[r].hung
    /\ req' = [req EXCEPT ![r].hung = TRUE]
    /\ UNCHANGED <<files, nextUuid, downloads, lastDl, now, ticks, locked, lastFormats, client, job>>

\* the client drops its connection while the conversion is in flight; the
\* handler listens to no 'close' event, so nothing else changes
ClientDisconnects(r) ==
    /\ req[r].pc \in {"pandoc", "libreoffice"}
    /\ req[r].conn = "open"
    /\ req' = [req EXCEPT ![r].conn = "closed"]
    /\ UNCHANGED <<files, nextUuid, downloads, lastDl, now, ticks, locked, lastFormats, client, job>>

\* another process opens a file of the upload or the output directory
FileLocked ==
    /\ locked = {}
    /\ \E p \in DOMAIN files \ {serverFile} : locked' = {p}
    /\ UNCHANGED <<req, files, nextUuid, downloads, lastDl, now, ticks, lastFormats, client, job>>

\* ... and closes it again
FileReleased ==
    /\ locked # {}
    /\ locked' = {}
    /\ UNCHANGED <<req, files, nextUuid, downloads, lastDl, now, ticks, lastFormats, client, job>>

\* --------------------------------------------------------------- /api/formats
\* res.json({ formats: Object.keys(formatSupport) })
FormatsHandler ==
    /\ lastFormats' = DOMAIN formatSupport
    /\ UNCHANGED <<req, files, nextUuid, downloads, lastDl, now, ticks, locked, client, job>>

\* ------------------------------------------------- the client and its URLs
\* the path a client requests for a URL: what stands before the first "#" or
\* "?" (the names of the model hold no "%", so nothing is percent-decoded)
RECURSIVE RequestPath(_)
RequestPath(url) ==
    IF url = <<>> \/ url[1] \in {"#", "?"} THEN <<>>
    ELSE <<url[1]>> \o RequestPath(Tail(url))

DownloadRoute == <<SEP, "api", SEP, "download", SEP>>

\* express, '/api/download/:filename': the parameter of a path that matches,
\* <<>> when the path does not match the route
RouteParam(urlPath) ==
    LET rest == SubSeq(urlPath, Len(DownloadRoute) + 1, Len(urlPath))
    IN  IF /\ startsWith(urlPath, DownloadRoute)
           /\ rest # <<>>
           /\ \A i \in 1..Len(rest) : rest[i] # SEP
        THEN rest ELSE <<>>

\* --------------------------------------------------------- the React client
\* const maxSize = 50 * 1024 * 1024
maxSize == 52428800

allowedFormats ==
    [PDF  |-> <<"DOCX">>,
     DOCX |-> <<"PDF", "TXT">>,
     DOC  |-> <<"PDF", "DOCX">>,
     TXT  |-> <<"PDF", "DOCX">>,
     MD   |-> <<"DOCX", "PDF">>,
     HTML |-> <<"DOCX", "PDF">>,
     JPG  |-> <<"PDF">>,
     JPEG |-> <<"PDF">>,
     PNG  |-> <<"PDF">>,
     CSV  |-> <<"XLSX", "PDF">>,
     XLSX |-> <<"CSV">>,
     XLS  |-> <<"CSV">>,
     ODS  |-> <<"XLSX">>,
     ODT  |-> <<"DOCX", "PDF">>,
     RTF  |-> <<"DOCX", "PDF">>,
     PPTX |-> <<"PDF">>,
     ODP  |-> <<"PDF">>]

\* allowedFormats[format]; <<>> stands for undefined
allowedTargets(format) ==
    IF Len(format) = 1 /\ format[1] \in DOMAIN allowedFormats
    THEN allowedFormats[format[1]] ELSE <<>>

\* filename.split('.').pop().toUpperCase()
detectFormat(filename) ==
    toUpperCase(SubSeq(filename, LastIndexOf(filename, DOT) + 1, Len(filename)))

isImageOrScannedPDF(format) ==
    format \in { <<"JPG">>, <<"JPEG">>, <<"PNG">>, <<"PDF">> }

\* the files the user picks
ClientFiles ==
    { [name |-> <<"report", DOT, "DOCX">>, size |-> 1],
      [name |-> <<"photo", DOT, "jpg">>, size |-> 1],
      [name |-> <<"setup", DOT, "exe">>, size |-> 1],
      [name |-> <<"notes", DOT, "md">>, size |-> maxSize + 1] }

\* the requests the client's calls make of the server
ClientReq == {1}

\* Math.random() * 30, in whole numbers
ProgressSteps == {12, 29}

\* a value that JavaScript takes for false in a test: '' or undefined
undefined == <<>>
Falsy(v) == v = <<>>

\* data[key] of a parsed body
Field(data, key) == IF key \in DOMAIN data THEN data[key] ELSE undefined

\* express answers a path without a route with 404 and a page of HTML, so
\* response.json() rejects and errorData is {}
NotFound == [status |-> 404, body |-> <<>>]

handleFileSelect(selectedFile) ==
    /\ LET format == detectFormat(selectedFile.name)
       IN  client' =
             IF selectedFile.size > maxSize
             THEN [client EXCEPT !.error = <<"File size exceeds 50MB limit">>]
             ELSE IF Falsy(allowedTargets(format))
             THEN [client EXCEPT !.error = <<"Unsupported file format.">>]
             ELSE [client EXCEPT !.error = <<>>,
                                 !.file = selectedFile,
                                 !.sourceFormat = format,
                                 !.showOcrOption = isImageOrScannedPDF(format),
                                 !.targetFormat = allowedTargets(format)[1],
                                 !.isComplete = FALSE,
                                 !.progress = 0,
                                 !.convertedFileName = <<>>]
    /\ UNCHANGED <<req, files, nextUuid, downloads, lastDl, now, ticks, locked, lastFormats, job>>

\* the button is there while a file is selected
handleRemoveFile ==
    /\ client.file # NullFile
    /\ client' = [client EXCEPT !.file = NullFile,
                                !.sourceFormat = <<>>,
                                !.targetFormat = "PDF",
                                !.isComplete = FALSE,
                                !.progress = 0,
                                !.showOcrOption = FALSE,
                                !.ocrEnabled = FALSE,
                                !.error = <<>>,
                                !.convertedFileName = <<>>]
    /\ UNCHANGED <<req, files, nextUuid, downloads, lastDl, now, ticks, locked, lastFormats, job>>

\* the <select> of the target format: its options are allowedFormats[sourceFormat]
setTargetFormat(value) ==
    /\ client.file # NullFile
    /\ \E i \in 1..Len(allowedTargets(client.sourceFormat)) :
          value = allowedTargets(client.sourceFormat)[i]
    /\ client.targetFormat # value
    /\ client' = [client EXCEPT !.targetFormat = value]
    /\ UNCHANGED <<req, files, nextUuid, downloads, lastDl, now, ticks, locked, lastFormats, job>>

\* the OCR toggle
setOcrEnabled ==
    /\ client.file # NullFile
    /\ client.showOcrOption
    /\ client' = [client EXCEPT !.ocrEnabled = ~@]
    /\ UNCHANGED <<req, files, nextUuid, downloads, lastDl, now, ticks, locked, lastFormats, job>>

\* handleConvert up to its await: the state is reset, the interval is set
\* and the request is sent.  The button is disabled while isConverting.
handleConvert ==
    /\ client.file # NullFile
    /\ client.targetFormat # ""
    /\ ~client.isConverting
    /\ Len(client.calls) < Cardinality(ClientReq)
    /\ client' = [client EXCEPT
          !.isConverting = TRUE,
          !.isComplete = FALSE,
          !.progress = 0,
          !.error = <<>>,
          !.calls = Append(@,
              [file |-> client.file,
               toFormat |-> <<LowerToken(client.targetFormat)>>,
               endpoint |-> IF client.ocrEnabled THEN "ocr-and-convert" ELSE "convert",
               r |-> 0, state |-> "pending", ok |-> FALSE,
               interval |-> "running"])]
    /\ UNCHANGED <<req, files, nextUuid, downloads, lastDl, now, ticks, locked, lastFormats, job>>

\* the request of a call reaches POST /api/convert: multer stores its file
ConvertRequestArrives(k) ==
    /\ k \in 1..Len(client.calls)
    /\ client.calls[k].state = "pending"
    /\ client.calls[k].endpoint = "convert"
    /\ client.calls[k].r = 0
    /\ \E r \in ClientReq :
          /\ req[r].pc = "idle"
          /\ \A q \in ClientReq : q < r => req[q].pc # "idle"
          /\ StoreUpload(r, TRUE, client.calls[k].file.name, client.calls[k].toFormat)
          /\ client' = [client EXCEPT !.calls[k].r = r]
    /\ UNCHANGED <<downloads, lastDl, now, ticks, locked, lastFormats, job>>

\* the callback of setInterval:
\* setProgress(prev => Math.min(prev + Math.random() * 30, 90))
ProgressInterval(k) ==
    /\ k \in 1..Len(client.calls)
    /\ client.calls[k].interval = "running"
    /\ \E step \in ProgressSteps :
          LET next == IF client.progress + step < 90
                      THEN client.progress + step ELSE 90
          IN  /\ next # client.progress
              /\ client' = [client EXCEPT !.progress = next]
    /\ UNCHANGED <<req, files, nextUuid, downloads, lastDl, now, ticks, locked, lastFormats, job>>

\* the catch block of handleConvert
ConvertCatch(c, message) ==
    [c EXCEPT !.error = IF Falsy(message)
                        THEN <<"Conversion failed. Please try again.">>
                        ELSE message,
              !.isConverting = FALSE,
              !.progress = 0]

\* the response to a call: what the server answered, or 404 for the path
\* server.js has no route for
ResponseTo(call) == IF call.r = 0 THEN NotFound ELSE req[call.r].resp

\* fetch resolved: handleConvert runs on from clearInterval to its end
handleConvertResumes(k) ==
    /\ k \in 1..Len(client.calls)
    /\ client.calls[k].state = "pending"
    /\ \/ client.calls[k].endpoint = "ocr-and-convert"
       \/ client.calls[k].r # 0 /\ req[client.calls[k].r].pc = "done"
    /\ LET response == ResponseTo(client.calls[k])
           ok == response.status \in 200..299
           errorData == response.body
           message == IF ~Falsy(Field(errorData, "error"))
                      THEN Field(errorData, "error")
                      ELSE <<"Conversion failed with status ", ToString(response.status)>>
           data == response.body
           ended == [client EXCEPT !.calls[k].state = "resolved",
                                   !.calls[k].ok = ok,
                                   !.calls[k].interval = "cleared"]
       IN  client' =
             IF ~ok THEN ConvertCatch(ended, message)
             ELSE [ended EXCEPT !.progress = 100,
                                !.convertedFileName = Field(data, "filename"),
                                !.isConverting = FALSE,
                                !.isComplete = TRUE]
    /\ UNCHANGED <<req, files, nextUuid, downloads, lastDl, now, ticks, locked, lastFormats, job>>

\* fetch rejected (the network failed): the catch block runs; clearInterval
\* stands after the await in the try block and is not reached
handleConvertCatches(k) ==
    /\ k \in 1..Len(client.calls)
    /\ client.calls[k].state = "pending"
    /\ client' = ConvertCatch([client EXCEPT !.calls[k].state = "rejected"],
                              <<"Failed to fetch">>)
    /\ UNCHANGED <<req, files, nextUuid, downloads, lastDl, now, ticks, locked, lastFormats, job>>

\* `${API_BASE_URL}/api/download/${convertedFileName}`, without the origin
DownloadUrl(name) == DownloadRoute \o name

\* the Download button, shown while isComplete.  A request that is answered
\* 200 is taken to its end: the file is sent, the timer is set, the browser
\* saves the blob and the client resets its state.
handleDownload ==
    /\ client.file # NullFile
    /\ client.isComplete
    /\ LET param == RouteParam(RequestPath(DownloadUrl(client.convertedFileName)))
           h == IF param = <<>> THEN [status |-> 404, path |-> <<>>]
                ELSE DownloadHandler(param)
           sent == Sent(files, h.path)
           ok == h.status = 200 /\ sent # "directory"
           free == {d \in DlAll : downloads[d].pc = "idle"}
           d == CHOOSE e \in free : \A o \in free : e <= o
       IN  IF Falsy(client.convertedFileName)
           THEN /\ client' = [client EXCEPT !.error = <<"No converted file available">>]
                /\ UNCHANGED <<lastDl, downloads>>
           ELSE IF ~ok
           THEN /\ client' = [client EXCEPT
                      !.error = <<"Failed to download file: ", "Download failed">>]
                /\ lastDl' = [asked |-> TRUE, status |-> h.status, path |-> h.path,
                              existed |-> existsSync(files, h.path)]
                /\ UNCHANGED downloads
           ELSE /\ free # {}
                /\ client' = [client EXCEPT
                      !.saved = @ \cup {[name |-> client.convertedFileName, kind |-> sent]},
                      !.file = NullFile,
                      !.isComplete = FALSE,
                      !.progress = 0,
                      !.sourceFormat = <<>>,
                      !.targetFormat = "PDF",
                      !.convertedFileName = <<>>]
                /\ lastDl' = [asked |-> TRUE, status |-> 200, path |-> h.path,
                              existed |-> TRUE]
                /\ downloads' = [downloads EXCEPT ![d] =
                      [pc |-> "timer", path |-> h.path, sent |-> sent,
                       err |-> FALSE, due |-> now + DeleteDelay]]
    /\ UNCHANGED <<req, files, nextUuid, now, ticks, locked, lastFormats, job>>

\* ------------------------------------------------- POST /api/ocr-and-convert
\* The client posts to this endpoint when OCR is on (handleConvert, and
\* AIFeatures' handleOCRSubmit); server.js has no such route.  The job behind
\* it runs through
\*   Received -> Rendered -> Extracted -> [Translated] -> Classified
\*            -> Converted -> Done,
\* with Failed(stage) reachable from every stage.
OcrKinds == {"image", "pdf"}
Languages == {"en", "hi"}
\* pages of a multi-page input
PageCounts == {1, 2}
\* words the extraction finds on the pages; 0 is a valid, empty result
WordCounts == {0, 10}

\* Failed(stage): the job ends, reported with the name of the stage
FailedAt(j, stage) ==
    [j EXCEPT !.stage = "Failed",
              !.failedStage = stage,
              !.resp = Json(500, [success |-> FALSE, stage |-> stage])]

\* translation runs only if the caller asked for it and the detected language
\* differs from the target
TranslationDue(j) == j.translate /\ j.language # j.targetLang

\* a slip: a failed translation ends the job
TranslatedOrFailed(j, ok) ==
    IF ok
    THEN [j EXCEPT !.stage = "Translated", !.text = "translated",
                   !.translation = [attempted |-> TRUE, success |-> TRUE]]
    ELSE FailedAt([j EXCEPT !.translation = [attempted |-> TRUE, success |-> FALSE]],
                  "Translated")

\* the Translated stage: a failure of the translation collaborator is not
\* fatal, the job goes on with the untranslated text
Translated(j, ok) ==
    [j EXCEPT !.stage = "Translated",
              !.text = IF ok THEN "translated" ELSE @,
              !.translation = [attempted |-> TRUE, success |-> ok]]

\* the answer of a job that reached Converted
OcrAnswer(j) ==
    Json(200, [success |-> TRUE,
               filename |-> <<"output", DOT, "docx">>,
               downloadUrl |-> <<SEP, "api", SEP, "download", SEP, "output", DOT, "docx">>,
               ocr |-> [word_count |-> j.words, language |-> j.language],
               translation |-> [success |-> j.translation.success]])

OcrReceive ==
    /\ job.stage = "None"
    /\ \E kind \in OcrKinds, translate \in BOOLEAN, targetLang \in Languages :
          job' = [NoJob EXCEPT !.stage = "Received", !.kind = kind,
                               !.translate = translate, !.targetLang = targetLang]
    /\ UNCHANGED <<req, files, nextUuid, downloads, lastDl, now, ticks, locked, lastFormats, client>>

\* an image passes through as one page; a document is rasterized page by page
OcrRender(ok) ==
    /\ job.stage = "Received"
    /\ IF ok
       THEN \E n \in PageCounts :
               /\ job.kind = "image" => n = 1
               /\ job' = [job EXCEPT !.stage = "Rendered", !.pages = n]
       ELSE job' = FailedAt(job, "Rendered")
    /\ UNCHANGED <<req, files, nextUuid, downloads, lastDl, now, ticks, locked, lastFormats, client>>

\* the text-extraction engine runs on every page; a crash is a failure, a
\* page set without words is not
OcrExtract(ok) ==
    /\ job.stage = "Rendered"
    /\ IF ok
       THEN \E words \in WordCounts, language \in Languages :
               job' = [job EXCEPT !.stage = "Extracted", !.text = "original",
                                  !.words = words, !.language = language]
       ELSE job' = FailedAt(job, "Extracted")
    /\ UNCHANGED <<req, files, nextUuid, downloads, lastDl, now, ticks, locked, lastFormats, client>>

OcrTranslate(ok) ==
    /\ job.stage = "Extracted"
    /\ TranslationDue(job)
    /\ job' = Translated(job, ok)
    /\ UNCHANGED <<req, files, nextUuid, downloads, lastDl, now, ticks, locked, lastFormats, client>>

OcrClassify(ok) ==
    /\ \/ job.stage = "Translated"
       \/ job.stage = "Extracted" /\ ~TranslationDue(job)
    /\ job' = IF ok THEN [job EXCEPT !.stage = "Classified"]
              ELSE FailedAt(job, "Classified")
    /\ UNCHANGED <<req, files, nextUuid, downloads, lastDl, now, ticks, locked, lastFormats, client>>

\* the extracted (or translated) text is fed into the document-producing
\* conversion
OcrConvert(ok) ==
    /\ job.stage = "Classified"
    /\ job' = IF ok THEN [job EXCEPT !.stage = "Converted", !.document = job.text]
              ELSE FailedAt(job, "Converted")
    /\ UNCHANGED <<req, files, nextUuid, downloads, lastDl, now, ticks, locked, lastFormats, client>>

OcrDone ==
    /\ job.stage = "Converted"
    /\ job' = [job EXCEPT !.stage = "Done", !.resp = OcrAnswer(job)]
    /\ UNCHANGED <<req, files, nextUuid, downloads, lastDl, now, ticks, locked, lastFormats, client>>

\* ------------------------------------------------------------ specifications
\* the conversion endpoint under concurrent requests
Next ==
    \/ \E r \in Req : MulterStore(r)
    \/ \E r \in Req : ConvertHandler(r)
    \/ \E r \in Req : PandocEnds(r)
    \/ \E r \in Req : LibreOfficeEnds(r)

Spec == Init /\ [][Next]_vars

\* uploads of the runs that go on to downloads
ServedNames == { <<"report", DOT, "DOCX">> }
ServedFormats == { <<"pdf">> }
\* ... and the requests that make them
ServedReq == {1}

\* conversions, downloads, timers and the clock
NextServe ==
    \/ \E r \in ServedReq : MulterStoreFrom(r, ServedNames, ServedFormats)
    \/ \E r \in ServedReq : ConvertHandler(r)
    \/ \E r \in ServedReq : PandocEnds(r)
    \/ \E r \in ServedReq : LibreOfficeEnds(r)
    \/ DownloadRefused
    \/ \E d \in Dl : DownloadStarts(d)
    \/ \E d \in Dl, err \in BOOLEAN : DownloadCallback(d, err)
    \/ \E d \in Dl : TimerFires(d)
    \/ Tick
    \/ TimerDue

SpecServe == Init /\ [][NextServe]_vars

\* Node runs a timer's callback once it is due, and time does not stop
FairServe ==
    /\ SpecServe
    /\ WF_vars(TimerDue)
    /\ \A d \in Dl : WF_vars(TimerFires(d))

\* uploads of the runs with faults; the second name holds a "#"
FaultNames == { <<"report", DOT, "DOCX">>, <<"Q", "#", "3", DOT, "docx">> }
FaultFormats == { <<"pdf">> }
FaultReq == {1}

\* the endpoints with what can go wrong around them: oversized uploads, engine
\* processes that hang, clients that go away, files held by other processes
NextFaults ==
    \/ \E r \in FaultReq : MulterStoreFrom(r, FaultNames, FaultFormats)
    \/ \E r \in FaultReq : MulterLimit(r, FaultNames)
    \/ \E r \in FaultReq : MulterAborts(r)
    \/ \E r \in FaultReq : ConvertHandler(r)
    \/ \E r \in FaultReq : PandocEnds(r)
    \/ \E r \in FaultReq : LibreOfficeEnds(r)
    \/ \E r \in FaultReq : EngineHangs(r)
    \/ \E r \in FaultReq : ClientDisconnects(r)
    \/ FileLocked
    \/ FileReleased
    \/ FormatsHandler
    \/ DownloadRefused
    \/ \E d \in Dl : DownloadStarts(d)
    \/ \E d \in Dl, err \in BOOLEAN : DownloadCallback(d, err)
    \/ \E d \in Dl : TimerFires(d)
    \/ TimerDue

SpecFaults == Init /\ [][NextFaults]_vars

\* conversions whose engine may hang and whose client may go away, and the
\* downloads that follow them
NextAbandon ==
    \/ \E r \in FaultReq : MulterStoreFrom(r, FaultNames, FaultFormats)
    \/ \E r \in FaultReq : ConvertHandler(r)
    \/ \E r \in FaultReq : PandocEnds(r)
    \/ \E r \in FaultReq : LibreOfficeEnds(r)
    \/ \E r \in FaultReq : EngineHangs(r)
    \/ \E r \in FaultReq : ClientDisconnects(r)
    \/ \E d \in Dl : DownloadStarts(d)
    \/ \E d \in Dl, err \in BOOLEAN : DownloadCallback(d, err)
    \/ \E d \in Dl : TimerFires(d)
    \/ TimerDue

SpecAbandon == Init /\ [][NextAbandon]_vars

\* an engine process of the request ends
EngineExits(r) == PandocEnds(r) \/ LibreOfficeEnds(r)

\* ENABLED EngineExits(r): every outcome of the process gives a step
EngineCanExit(r) == req[r].pc \in {"pandoc", "libreoffice"} /\ ~req[r].hung

\* WF_vars(EngineExits(r)), with ENABLED written out
EngineExitsFair(r) == <>[]EngineCanExit(r) => []<><<EngineExits(r)>>_vars

\* Node runs every callback that is ready: the handler is called for a stored
\* upload, an engine process that does not hang exits, and timers fire.
\* Nothing makes a client download.
FairAbandon ==
    /\ SpecAbandon
    /\ \A r \in FaultReq : WF_vars(ConvertHandler(r)) /\ EngineExitsFair(r)
    /\ WF_vars(TimerDue)
    /\ \A d \in Dl : WF_vars(TimerFires(d))

\* uploads of the runs in which nothing is assumed of the engine processes
EngineNames == { <<"report", DOT, "DOCX">>, <<"sheet", DOT, "xlsx">> }

\* the conversion endpoint with engine processes of any behaviour
NextEngines ==
    \/ \E r \in Req : MulterStoreFrom(r, EngineNames, ServedFormats)
    \/ \E r \in Req : ConvertHandler(r)
    \/ \E r \in Req : PandocEndsWith(r, AnyPandocOutcomes)
    \/ \E r \in Req : LibreOfficeEnds(r)

SpecEngines == Init /\ [][NextEngines]_vars

\* one conversion and downloads of its output that overlap
NextOverlap ==
    \/ \E r \in ServedReq : MulterStoreFrom(r, ServedNames, ServedFormats)
    \/ \E r \in ServedReq : ConvertHandler(r)
    \/ \E r \in ServedReq : PandocEnds(r)
    \/ \E r \in ServedReq : LibreOfficeEnds(r)
    \/ \E d \in DlAll : DownloadStarts(d)
    \/ \E d \in DlAll, err \in BOOLEAN : DownloadCallback(d, err)
    \/ \E d \in DlAll : TimerFires(d)
    \/ TimerDue

SpecOverlap == Init /\ [][NextOverlap]_vars

\* the client in front of server.js
NextClient ==
    \/ \E selectedFile \in ClientFiles : handleFileSelect(selectedFile)
    \/ handleRemoveFile
    \/ \E value \in {"PDF", "TXT"} : setTargetFormat(value)
    \/ setOcrEnabled
    \/ handleConvert
    \/ \E k \in ClientReq : ConvertRequestArrives(k)
    \/ \E k \in ClientReq : ProgressInterval(k)
    \/ \E k \in ClientReq : handleConvertResumes(k)
    \/ \E k \in ClientReq : handleConvertCatches(k)
    \/ handleDownload
    \/ \E r \in ClientReq : ConvertHandler(r)
    \/ \E r \in ClientReq : PandocEnds(r)
    \/ \E r \in ClientReq : LibreOfficeEnds(r)

SpecClient == Init /\ [][NextClient]_vars

\* the OCR + Convert job
NextOcr ==
    \/ OcrReceive
    \/ \E ok \in BOOLEAN : OcrRender(ok)
    \/ \E ok \in BOOLEAN : OcrExtract(ok)
    \/ \E ok \in BOOLEAN : OcrTranslate(ok)
    \/ \E ok \in BOOLEAN : OcrClassify(ok)
    \/ \E ok \in BOOLEAN : OcrConvert(ok)
    \/ OcrDone

SpecOcr == Init /\ [][NextOcr]_vars

\* ====================================================================== claims
Present(r) == req[r].file.present
HasTarget(r) == Present(r) /\ req[r].toFormat # <<>>
Handled(r) == req[r].pc \notin {"idle", "stored"}
Finished(r) == req[r].pc = "done"
Succeeded(r) == Finished(r) /\ req[r].resp.status = 200

\* how a process ended, whatever the adapter made of it
ExitedZero(e) == e.o.event = "close" /\ e.o.code = 0
\* "non-zero exit or missing output artifact"
EngineFailed(e) ==
    e.result # "running" /\ (~ExitedZero(e) \/ (e.engine = "libreoffice" /\ ~e.found))

DirectlyInside(dir, p) ==
    /\ startsWith(p, dir \o <<SEP>>)
    /\ Len(p) > Len(dir) + 1
    /\ \A i \in (Len(dir) + 2)..Len(p) : p[i] # SEP

InOutputDir(p) == DirectlyInside(outputDir, p)
InUploadDir(p) == DirectlyInside(uploadDir, p)

\* C1: for a pair both of whose formats Pandoc handles, the first process of
\* the request is Pandoc; LibreOffice runs only as the second process, after
\* Pandoc has ended in failure, and no process follows one that succeeded.
C1_PandocFirst ==
    \A r \in Req :
        (HasTarget(r) /\ Handled(r) /\ canUsePandoc(inputExt(req[r]), req[r].toFormat)) =>
            LET e == req[r].engines
            IN  /\ Len(e) \in {1, 2}
                /\ e[1].engine = "pandoc"
                /\ Len(e) = 2 =>
                      /\ e[2].engine = "libreoffice"
                      /\ e[1].result = "rejected"
                      /\ ~ExitedZero(e[1])
                /\ (e[1].result # "running" /\ ExitedZero(e[1])) =>
                      (Len(e) = 1 /\ Succeeded(r))

C1_Witness ==
    \E r, q \in Req :
        /\ Len(req[r].engines) = 2
        /\ req[r].engines[1].engine = "pandoc"
        /\ ~ExitedZero(req[r].engines[1])
        /\ req[r].engines[2].engine = "libreoffice"
        /\ Succeeded(r)
        /\ Len(req[q].engines) = 1
        /\ req[q].engines[1].engine = "pandoc"
        /\ ExitedZero(req[q].engines[1])
        /\ canUseLibreOffice(inputExt(req[q]), req[q].toFormat)
        /\ Succeeded(q)

\* Pandoc failed, LibreOffice then exited with 0 and wrote its file
FallbackSucceeded(r) ==
    /\ Finished(r)
    /\ Len(req[r].engines) = 2
    /\ ~ExitedZero(req[r].engines[1])
    /\ ExitedZero(req[r].engines[2])
    /\ req[r].engines[2].o.wrote = "full"

\* the engine the response names, if it names one
EngineUsed(resp) ==
    IF "body" \in DOMAIN resp /\ "engineUsed" \in DOMAIN resp.body
    THEN resp.body.engineUsed ELSE "untagged"

\* C2 as stated: when Pandoc fails and LibreOffice succeeds the request
\* returns success and its result is tagged engineUsed: fallback.
C2_TaggedFallback ==
    \A r \in Req :
        FallbackSucceeded(r) =>
            /\ req[r].resp.status = 200
            /\ req[r].resp.body.success
            /\ EngineUsed(req[r].resp) = "fallback"

\* C2 amended: when Pandoc fails and LibreOffice succeeds the request returns
\* success with the name and the download URL of the file LibreOffice wrote;
\* the response is {success, fileName, downloadUrl} and names no engine.
C2_FallbackSucceeds ==
    \A r \in Req :
        FallbackSucceeded(r) =>
            /\ req[r].resp.status = 200
            /\ DOMAIN req[r].resp.body = {"success", "fileName", "downloadUrl"}
            /\ req[r].resp.body.success
            /\ req[r].resp.body.fileName = outputFileName(req[r])
            /\ req[r].resp.body.downloadUrl =
                   <<SEP, "api", SEP, "download", SEP>> \o outputFileName(req[r])
            /\ outputPath(req[r]) \in DOMAIN files
            /\ files[outputPath(req[r])].by = "libreoffice"
            /\ files[outputPath(req[r])].kind = "converted"

C2_Witness ==
    \E r \in Req :
        /\ FallbackSucceeded(r)
        /\ req[r].engines[1].o.event = "error"
        /\ req[r].resp.status = 200

\* neither engine handles both formats of the pair
NoCapableEngine(r) ==
    /\ ~(PandocName(inputExt(req[r])) # "" /\ PandocName(req[r].toFormat) # "")
    /\ ~(LibreCapable(inputExt(req[r])) /\ LibreCapable(req[r].toFormat))

UnsupportedMessage(r) ==
    <<"Conversion from ">> \o inputExt(req[r]) \o <<" to ">> \o req[r].toFormat
        \o <<" is not supported">>

\* C3: a request for a pair without a capable engine fails with the
\* unsupported-conversion error; it has spawned no process and there is no
\* file of it in the output directory.
C3_UnsupportedFailsFast ==
    \A r \in Req :
        (HasTarget(r) /\ Handled(r) /\ NoCapableEngine(r)) =>
            /\ Finished(r)
            /\ req[r].resp.status = 500
            /\ req[r].resp.body = [error |-> UnsupportedMessage(r)]
            /\ req[r].engines = <<>>
            /\ outputPath(req[r]) \notin DOMAIN files
            /\ \A p \in DOMAIN files : InOutputDir(p) => files[p].of # r

C3_Witness ==
    \E r, q \in Req :
        /\ HasTarget(r) /\ Finished(r) /\ NoCapableEngine(r)
        /\ inputExt(req[r]) = <<"xlsx">> /\ req[r].toFormat = <<"md">>
        /\ HasTarget(q) /\ Finished(q) /\ NoCapableEngine(q)
        /\ inputExt(req[q]) = <<"exe">>

\* C4: the stored upload of a request is unlinked exactly once by the time the
\* request has its answer, on every path, never more than once before, and
\* no unlink is attempted on an input that is absent.
C4_InputDeletedOnce ==
    \A r \in Req :
        /\ req[r].enoent = 0
        /\ req[r].unlinks <= 1
        /\ (Present(r) /\ Finished(r)) =>
              /\ req[r].unlinks = 1
              /\ req[r].file.path \notin DOMAIN files
        /\ (Present(r) /\ ~Finished(r)) =>
              /\ req[r].unlinks = 0
              /\ req[r].file.path \in DOMAIN files

\* two of the exit paths at once: a success, and a failure of every engine
C4_Witness ==
    \E r, q \in Req :
        /\ Succeeded(r) /\ req[r].unlinks = 1
        /\ Finished(q) /\ req[q].resp.status = 500 /\ req[q].engines # <<>>
        /\ req[q].unlinks = 1

\* the other two: an unsupported pair, and a missing toFormat
C4_WitnessEarly ==
    \E r, q \in Req :
        /\ HasTarget(r) /\ Finished(r) /\ NoCapableEngine(r) /\ req[r].unlinks = 1
        /\ Present(q) /\ Finished(q) /\ req[q].resp.status = 400 /\ req[q].unlinks = 1

\* C5: under any interleaving of the requests, the output of a successful
\* request holds the conversion of that request's upload, the upload of a
\* request in flight is there and is its own, and a step of one request
\* neither removes nor changes a file of another.
C5_OwnFiles ==
    \A r \in Req :
        /\ Succeeded(r) =>
              /\ outputPath(req[r]) \in DOMAIN files
              /\ files[outputPath(req[r])].of = r
        /\ (Present(r) /\ ~Finished(r)) =>
              /\ req[r].file.path \in DOMAIN files
              /\ files[req[r].file.path] = Content("upload", r, "client", 0)

C5_OthersUntouched ==
    \A r \in Req :
        (req'[r] = req[r]) =>
            \A p \in DOMAIN files :
                files[p].of = r => (p \in DOMAIN files' /\ files'[p] = files[p])

C5_NoInterference == []C5_OwnFiles /\ [][C5_OthersUntouched]_vars

\* request 1 arrived first and is still converting, with a file of its own in
\* the output directory, when request 2, an upload of the same name for the
\* same target, has succeeded
C5_Witness ==
    /\ NumReq >= 2
    /\ req[1].file.originalname = req[2].file.originalname
    /\ req[1].toFormat = req[2].toFormat
    /\ req[1].pc = "libreoffice"
    /\ outputPath(req[1]) \in DOMAIN files
    /\ Succeeded(2)
    /\ outputPath(req[2]) \in DOMAIN files

\* C6: two uploads are stored under different paths, and the names of their
\* output files differ, also when the original names are the same.
C6_DistinctNames ==
    \A r, q \in Req :
        (r # q /\ Present(r) /\ Present(q)) =>
            /\ req[r].file.path # req[q].file.path
            /\ req[r].file.filename # req[q].file.filename
            /\ outputFileName(req[r]) # outputFileName(req[q])
            /\ outputPath(req[r]) # outputPath(req[q])

C6_Witness ==
    \E r, q \in Req :
        /\ r # q
        /\ HasTarget(r) /\ HasTarget(q)
        /\ req[r].pc = "stored" /\ req[q].pc = "stored"
        /\ req[r].file.originalname = req[q].file.originalname
        /\ req[r].toFormat = req[q].toFormat

\* C7 as stated: whatever the parameter, the endpoint either serves a file
\* directly inside the output directory or answers 403 or 404: an answer is
\* 403, 404 or the file, and a request that got as far as res.download has
\* been sent a file of the output directory once its callback has run.
C7_ServesOrRefuses ==
    /\ (lastDl.asked /\ lastDl.status # 0) =>
          \/ lastDl.status \in {403, 404}
          \/ lastDl.status = 200 /\ InOutputDir(lastDl.path)
    /\ \A d \in Dl :
          downloads[d].pc \in {"failed", "timer", "done"} =>
              /\ downloads[d].sent # "directory"
              /\ InOutputDir(downloads[d].path)

\* the part of C7 that holds: a file that is sent lies directly inside the
\* output directory
DownloadStaysInOutputDir ==
    \A d \in Dl :
        downloads[d].sent \notin {"nothing", "directory"} => InOutputDir(downloads[d].path)

\* C8: a download whose callback got no error sets the timer for 5 seconds
\* later; the timer fires no earlier, its file is gone once it has fired and a
\* download of an absent name is answered 404; a download whose callback got
\* an error sets no timer; and every timer that is set fires.
C8_TimerState ==
    /\ \A d \in Dl :
          /\ downloads[d].err => downloads[d].pc = "failed"
          /\ downloads[d].pc = "timer" => (now <= downloads[d].due /\ ~downloads[d].err)
    /\ (lastDl.asked /\ InOutputDir(lastDl.path) /\ ~lastDl.existed) => lastDl.status = 404

C8_TimerSteps ==
    \A d \in Dl :
        /\ (downloads[d].pc = "sending" /\ downloads'[d].pc = "timer") =>
              (downloads'[d].due = now + DeleteDelay /\ files' = files)
        /\ (downloads[d].pc = "sending" /\ downloads'[d].pc = "failed") =>
              (files' = files /\ downloads'[d].due = 0)
        /\ (downloads[d].pc = "timer" /\ downloads'[d].pc = "done") =>
              (now >= downloads[d].due /\ downloads[d].path \notin DOMAIN files')

C8_DeferredDeletion ==
    /\ []C8_TimerState
    /\ [][C8_TimerSteps]_vars
    /\ \A d \in Dl :
          (downloads[d].pc = "timer") ~>
              (downloads[d].pc = "done" /\ downloads[d].path \notin DOMAIN files)

\* a download completed, its timer fired 5 seconds later, and the next
\* download of the same name was answered 404
C8_Witness ==
    \E d \in Dl :
        /\ downloads[d].pc = "done"
        /\ downloads[d].sent = "converted"
        /\ now = downloads[d].due
        /\ downloads[d].path \notin DOMAIN files
        /\ lastDl.path = downloads[d].path
        /\ lastDl.status = 404

\* an engine process of the request the file belongs to is still running
InUse(p) == \E r \in Req : files[p].of = r /\ req[r].pc \in {"pandoc", "libreoffice"}

\* C9 as stated, for the files no engine works on: no file of the upload or
\* the output directory is older than the retention horizon.
C9_RetentionHorizon ==
    \A p \in DOMAIN files :
        ((InUploadDir(p) \/ InOutputDir(p)) /\ ~InUse(p)) =>
            now - files[p].mtime <= RetentionHorizon

\* the message of the error an adapter rejects with
Diagnostic(e) ==
    IF e.engine = "pandoc" THEN PandocMessage(e.o) ELSE LibreMessage(e.o)

\* every engine that handles the pair was run and failed
ChainFailed(r) ==
    LET e == req[r].engines
        chain == (IF canUsePandoc(inputExt(req[r]), req[r].toFormat) THEN 1 ELSE 0)
                 + (IF canUseLibreOffice(inputExt(req[r]), req[r].toFormat) THEN 1 ELSE 0)
    IN  /\ HasTarget(r)
        /\ chain > 0
        /\ Len(e) = chain
        /\ \A i \in 1..Len(e) : EngineFailed(e[i])

NamesOutput(resp) ==
    /\ resp.status = 200
    /\ "fileName" \in DOMAIN resp.body
    /\ resp.body.fileName # <<>>
    /\ "error" \notin DOMAIN resp.body

\* the answer is a failure that carries an error
CarriesError(resp) ==
    /\ resp.status \in {400, 500}
    /\ "error" \in DOMAIN resp.body
    /\ resp.body.error # <<>>
    /\ "fileName" \notin DOMAIN resp.body
    /\ "success" \notin DOMAIN resp.body

C11_OneResult ==
    \A r \in Req :
        /\ Finished(r) => (NamesOutput(req[r].resp) # CarriesError(req[r].resp))
        /\ ~Finished(r) => req[r].resp = NoResp

C11_ResultStays ==
    \A r \in Req : Finished(r) => req'[r] = req[r]

\* C11: a request that has its answer has exactly one result, a success that
\* names an output file or a failure that carries an error, never both and
\* never neither; a request has no result before, and the result it has got
\* never changes.
C11_ExactlyOneResult == []C11_OneResult /\ [][C11_ResultStays]_vars

\* a success and a failure of the engines side by side
C11_Witness ==
    \E r, q \in Req :
        /\ Succeeded(r) /\ NamesOutput(req[r].resp)
        /\ Finished(q) /\ req[q].engines # <<>> /\ CarriesError(req[q].resp)

\* the file a GET of the URL is answered with, <<>> when it is answered with
\* none
Resolves(url) ==
    LET param == RouteParam(RequestPath(url))
        h == DownloadHandler(param)
    IN  IF param # <<>> /\ h.status = 200 /\ h.path \in DOMAIN files
        THEN h.path ELSE <<>>

NoDownloadYet == \A d \in Dl : downloads[d].pc = "idle"

\* C12 as stated: once a request is answered with success (and before any
\* download has removed the file) the file named fileName is in the output
\* directory and is the artifact of this request's conversion, its extension
\* is the requested format, and a GET of downloadUrl is answered with it.
C12_SuccessHasArtifact ==
    \A r \in Req :
        (Succeeded(r) /\ NoDownloadYet) =>
            LET b == req[r].resp.body
                p == join(outputDir, b.fileName)
            IN  /\ p \in DOMAIN files
                /\ files[p].kind = "converted"
                /\ files[p].of = r
                /\ extname(b.fileName) = <<DOT>> \o req[r].toFormat
                /\ Resolves(b.downloadUrl) = p

\* what the engine processes wrote to stderr
StderrTexts == {"pandoc stderr", "libreoffice stderr"}

StderrOf(engine) == IF engine = "pandoc" THEN "pandoc stderr" ELSE "libreoffice stderr"

FailedPrefix(engine) ==
    IF engine = "pandoc" THEN "Pandoc conversion failed: "
    ELSE "LibreOffice conversion failed: "

Tokens(s) == {s[i] : i \in 1..Len(s)}

\* the request was answered with the failure of its last engine
EnginesFailedAnswer(r) ==
    /\ Finished(r)
    /\ req[r].resp.status = 500
    /\ req[r].engines # <<>>
    /\ req[r].engines[Len(req[r].engines)].result = "rejected"

\* C13 as stated: the error body of a failed conversion holds no raw stderr
\* text of an engine process.
C13_NoRawStderr ==
    \A r \in Req :
        EnginesFailedAnswer(r) => Tokens(req[r].resp.body.error) \cap StderrTexts = {}

\* C13 amended: the error body of a failed conversion is the message of the
\* last engine's error; when that engine's process exited with a non-zero code
\* it is "<Engine> conversion failed: " followed by the raw stderr text of that
\* process, otherwise it holds no stderr text; the stderr of an earlier engine
\* of the chain is never in it.
C13_StderrOfLastEngine ==
    \A r \in Req :
        EnginesFailedAnswer(r) =>
            LET e == req[r].engines
                last == e[Len(e)]
                error == req[r].resp.body.error
            IN  /\ (last.o.event = "close" /\ last.o.code # 0) =>
                      error = <<FailedPrefix(last.engine), StderrOf(last.engine)>>
                /\ ~(last.o.event = "close" /\ last.o.code # 0) =>
                      Tokens(error) \cap StderrTexts = {}
                /\ \A i \in 1..(Len(e) - 1) :
                      e[i].engine # last.engine => StderrOf(e[i].engine) \notin Tokens(error)

\* Pandoc alone failed with a non-zero exit, and elsewhere Pandoc failed the
\* same way before LibreOffice did
C13_Witness ==
    \E r, q \in Req :
        /\ EnginesFailedAnswer(r)
        /\ Len(req[r].engines) = 1
        /\ req[r].engines[1].engine = "pandoc"
        /\ req[r].engines[1].o.code = 1
        /\ "pandoc stderr" \in Tokens(req[r].resp.body.error)
        /\ EnginesFailedAnswer(q)
        /\ Len(req[q].engines) = 2
        /\ req[q].engines[1].o.code = 1
        /\ req[q].engines[2].o.code = 1
        /\ "libreoffice stderr" \in Tokens(req[q].resp.body.error)

\* the extension of the uploaded file is no format of the registry
NotInRegistry(r) ==
    Present(r) /\ ~(Len(inputExt(req[r])) = 1 /\ inputExt(req[r])[1] \in DOMAIN formatSupport)

\* C14 as stated: an upload whose extension is no registry format is rejected
\* with a 4xx status before any engine runs, and a 5xx status is given only
\* when engines ran and failed.
C14_UnsupportedIs4xx ==
    \A r \in Req :
        /\ (NotInRegistry(r) /\ Handled(r)) =>
              /\ Finished(r)
              /\ req[r].engines = <<>>
              /\ req[r].resp.status \in 400..499
        /\ (Finished(r) /\ req[r].resp.status \in 500..599) => req[r].engines # <<>>

\* C14 amended: an upload whose extension is no registry format is rejected
\* before any engine runs, with status 500 and the error "Conversion from
\* <ext> to <format> is not supported" when a target format is given and with
\* status 400 when it is missing; the handler answers 400 only for a missing
\* file or a missing target format, and 500 for a pair without a capable
\* engine and for a chain of engines that failed.
C14_UnsupportedIs500 ==
    \A r \in Req :
        /\ (NotInRegistry(r) /\ Handled(r)) =>
              /\ Finished(r)
              /\ req[r].engines = <<>>
              /\ req[r].toFormat # <<>> =>
                    /\ req[r].resp.status = 500
                    /\ req[r].resp.body = [error |-> UnsupportedMessage(r)]
              /\ req[r].toFormat = <<>> =>
                    /\ req[r].resp.status = 400
                    /\ req[r].resp.body = [error |-> <<"Target format not specified">>]
        /\ (Finished(r) /\ req[r].resp.status = 400) =>
              (~Present(r) \/ req[r].toFormat = <<>>)
        /\ (Finished(r) /\ req[r].resp.status = 500) =>
              \/ req[r].engines = <<>> /\ NoCapableEngine(r)
              \/ EnginesFailedAnswer(r)

C14_Witness ==
    \E r, q \in Req :
        /\ NotInRegistry(r) /\ Finished(r)
        /\ req[r].file.originalname = <<"setup", DOT, "exe">>
        /\ req[r].toFormat = <<"pdf">>
        /\ req[r].resp.status = 500
        /\ NotInRegistry(q) /\ Finished(q)
        /\ req[q].toFormat = <<>>
        /\ req[q].resp.status = 400

\* the files of the output directory that hold bytes of the request's upload
OutputsOf(r) == {p \in DOMAIN files : InOutputDir(p) /\ files[p].of = r}

\* C15 as stated: once a request is answered with the failure of its engines,
\* the output directory holds no file of that request.
C15_NoPartialOutput ==
    \A r \in Req : EnginesFailedAnswer(r) => OutputsOf(r) = {}

\* a request answered with success while its output is what a failed engine
\* left behind
PartialServedAsSuccess ==
    \E r \in Req :
        /\ Succeeded(r)
        /\ outputPath(req[r]) \in DOMAIN files
        /\ files[outputPath(req[r])].kind = "partial"

EngineRunning(r) == req[r].pc \in {"pandoc", "libreoffice"}

\* C16 as stated: a request whose engine process never exits is answered all
\* the same (the engine is given up after a maximum duration).
C16_HungEngineAnswered ==
    \A r \in FaultReq : (EngineRunning(r) /\ req[r].hung) ~> Finished(r)

\* the last engine of the request ended in success
EngineSucceeded(r) ==
    /\ req[r].engines # <<>>
    /\ req[r].engines[Len(req[r].engines)].result = "resolved"

\* C17 as stated: a deletion that fails on a locked file is not fatal: no
\* handler ends in an unhandled error, a conversion whose engine succeeded is
\* answered with success, and no timer's callback throws.
C17_LockedDeletionNotFatal ==
    /\ \A r \in Req :
          /\ req[r].pc # "unhandled"
          /\ (EngineSucceeded(r) /\ ~EngineRunning(r)) => Succeeded(r)
    /\ \A d \in Dl : downloads[d].pc # "threw"

\* the upload of the request was over the size limit
Oversized(r) == req[r].temp # <<>>

\* C18 as stated: for an upload over the size limit no temp file is ever
\* written, no engine is invoked, and the answer is a 4xx.
C18_OversizeRejectedEarly ==
    \A r \in Req :
        Oversized(r) =>
            /\ req[r].temp \notin DOMAIN files
            /\ req[r].engines = <<>>
            /\ Finished(r) => req[r].resp.status \in 400..499

\* some engine of the registry takes fmt as its input / gives it as its output
EngineReads(fmt) ==
    \E g \in DOMAIN formatSupport :
        \/ PandocName(<<fmt>>) # "" /\ PandocName(<<g>>) # ""
        \/ LibreCapable(<<fmt>>) /\ LibreCapable(<<g>>)

EngineWritesFormat(fmt) ==
    \E g \in DOMAIN formatSupport :
        \/ PandocName(<<g>>) # "" /\ PandocName(<<fmt>>) # ""
        \/ LibreCapable(<<g>>) /\ LibreCapable(<<fmt>>)

AdvertisedFormats ==
    {"pdf", "docx", "doc", "odt", "rtf", "txt", "md", "html",
     "xlsx", "xls", "ods", "csv", "pptx", "ppt", "odp"}

\* C19: every format that GET /api/formats has returned has an engine that
\* reads it and an engine that writes it, and the answer is the same list of
\* formats whatever requests went before.
C19_AdvertisedHaveEngines ==
    /\ \A fmt \in lastFormats : EngineReads(fmt) /\ EngineWritesFormat(fmt)
    /\ lastFormats # {} => lastFormats = AdvertisedFormats

\* the formats were asked for after a conversion had succeeded
C19_Witness ==
    /\ "md" \in lastFormats
    /\ "xlsx" \in lastFormats
    /\ \E r \in Req : Succeeded(r)

\* the files that hold bytes of the request's upload
FilesOf(r) == {p \in DOMAIN files : files[p].of = r}

\* C20 as stated: once the client's connection is dropped during a
\* conversion, eventually no engine process of the request runs and no file
\* of the request is on disk.
C20_DisconnectCleansUp ==
    \A r \in FaultReq :
        (req[r].conn = "closed") ~> (~EngineRunning(r) /\ FilesOf(r) = {})

\* the translation collaborator was called and failed
TranslationFailed == job.translation.attempted /\ ~job.translation.success

\* C21: in the OCR + Convert job a failed translation does not end the job:
\* the job goes on with the untranslated text and, when it is done, answers
\* success with translation.success false and a document of the untranslated
\* text; a failure of any other stage ends the job in Failed, reported with
\* the name of that stage and without a document.
C21_TranslationNotFatal ==
    /\ TranslationFailed =>
          /\ job.text = "original"
          /\ job.failedStage # "Translated"
    /\ (job.stage = "Done" /\ TranslationFailed) =>
          /\ job.resp.status = 200
          /\ job.resp.body.success
          /\ job.resp.body.translation = [success |-> FALSE]
          /\ job.document = "original"
    /\ job.stage = "Done" => job.failedStage = "" /\ job.document = job.text
    /\ job.stage = "Failed" =>
          /\ job.failedStage \in {"Rendered", "Extracted", "Classified", "Converted"}
          /\ job.resp = Json(500, [success |-> FALSE, stage |-> job.failedStage])
          /\ job.document = ""

\* a job whose translation failed is done, with words on its pages
C21_Witness ==
    /\ job.stage = "Done"
    /\ TranslationFailed
    /\ job.words > 0
    /\ job.resp.body.success

\* C22 as stated: an adapter resolves only if its process exited with 0 and
\* the output file is there at the path it returns; a process that exited
\* with 0 and left no file there is a failure of the adapter, and for Pandoc
\* as the first engine of a pair LibreOffice handles it starts LibreOffice.
C22_SuccessNeedsArtifact ==
    \A r \in Req : \A i \in 1..Len(req[r].engines) :
        LET e == req[r].engines[i]
        IN  /\ e.result = "resolved" => ExitedZero(e) /\ e.found
            /\ (e.result # "running" /\ ExitedZero(e) /\ ~e.found) =>
                  /\ e.result = "rejected"
                  /\ (e.engine = "pandoc" /\ LibreCapable(inputExt(req[r]))
                        /\ LibreCapable(req[r].toFormat)) =>
                        /\ Len(req[r].engines) = 2
                        /\ req[r].engines[2].engine = "libreoffice"

\* the request lacks the file or the toFormat field
Invalid(r) == req[r].pc # "idle" /\ (~Present(r) \/ req[r].toFormat = <<>>)

\* C23 as stated: a request without the file or without toFormat is answered
\* with a 4xx before any file-system or process work: no file of it is ever
\* in the upload directory and no engine is spawned for it.
C23_RejectedBeforeWork ==
    \A r \in Req :
        Invalid(r) =>
            /\ \A p \in FilesOf(r) : ~InUploadDir(p)
            /\ req[r].engines = <<>>
            /\ Handled(r) => (Finished(r) /\ req[r].resp.status \in 400..499)

\* C23 amended: a request without the file or without toFormat is answered
\* 400 before any engine is spawned.  Without a file nothing is written to
\* the upload directory; with a file and without toFormat multer has stored
\* the upload before the handler runs, and the handler unlinks it before it
\* answers, so no file of the request is left.
C23_RejectedWithoutEngine ==
    \A r \in Req :
        Invalid(r) =>
            /\ req[r].engines = <<>>
            /\ ~Present(r) => FilesOf(r) = {}
            /\ (Present(r) /\ ~Handled(r)) =>
                  /\ FilesOf(r) = {req[r].file.path}
                  /\ InUploadDir(req[r].file.path)
            /\ Handled(r) =>
                  /\ Finished(r)
                  /\ FilesOf(r) = {}
                  /\ req[r].resp =
                        Json(400, [error |-> IF Present(r)
                                             THEN <<"Target format not specified">>
                                             ELSE <<"No file uploaded">>])

\* one request without toFormat and one without a file have their answers
C23_Witness ==
    \E r, q \in Req :
        /\ Present(r) /\ req[r].toFormat = <<>> /\ Finished(r)
        /\ req[r].unlinks = 1
        /\ ~Present(q) /\ Finished(q)

\* C24: no process is spawned of an engine that does not handle both formats
\* of the pair; when Pandoc fails for a pair that LibreOffice does not
\* handle, Pandoc stays the only process of the request and the request
\* fails with the error of the Pandoc adapter.
C24_NoIncapableEngine ==
    \A r \in Req :
        LET e == req[r].engines
            libre == LibreCapable(inputExt(req[r])) /\ LibreCapable(req[r].toFormat)
        IN  /\ \A i \in 1..Len(e) :
                  /\ e[i].engine = "pandoc" =>
                        /\ PandocName(inputExt(req[r])) # ""
                        /\ PandocName(req[r].toFormat) # ""
                  /\ e[i].engine = "libreoffice" => libre
            /\ (Len(e) >= 1 /\ e[1].engine = "pandoc"
                  /\ e[1].result = "rejected" /\ ~libre) =>
                  /\ Len(e) = 1
                  /\ Finished(r)
                  /\ req[r].resp = Json(500, [error |-> PandocMessage(e[1].o)])

\* Pandoc failed for md -> pdf and for docx -> md
C24_Witness ==
    \E r, q \in Req :
        /\ inputExt(req[r]) = <<"md">> /\ req[r].toFormat = <<"pdf">>
        /\ Len(req[r].engines) = 1 /\ req[r].engines[1].result = "rejected"
        /\ Finished(r)
        /\ inputExt(req[q]) = <<"docx">> /\ req[q].toFormat = <<"md">>
        /\ Len(req[q].engines) = 1 /\ req[q].engines[1].result = "rejected"
        /\ Finished(q)

\* C27 as stated: when a request succeeds through LibreOffice after Pandoc
\* failed, the output file was written by LibreOffice; what the failed
\* Pandoc run left at the output path is never taken for LibreOffice's file.
C27_FallbackArtifactIsOwn ==
    \A r \in Req :
        (Succeeded(r) /\ Len(req[r].engines) = 2
            /\ req[r].engines[1].result = "rejected") =>
            /\ req[r].engines[2].o.wrote = "full"
            /\ outputPath(req[r]) \in DOMAIN files
            /\ files[outputPath(req[r])].by = "libreoffice"

\* a transfer of a file is under way
Transferring(d) ==
    downloads[d].pc = "sending" /\ downloads[d].sent # "directory"

\* C28 as stated: an output file is not deleted while a download of it is in
\* progress, whatever timers of earlier downloads fire; a timer that fires
\* when the file is gone changes nothing.
C28_NotDeletedWhileSending ==
    \A d \in DlAll :
        Transferring(d) => downloads[d].path \in DOMAIN files

\* the calls of handleConvert so far
Calls == 1..Len(client.calls)

\* the server answered the call with success and the client has taken it
ConvertedOk(k) ==
    /\ client.calls[k].state = "resolved"
    /\ client.calls[k].ok
    /\ client.calls[k].r # 0

\* C25 as stated: once the client has taken a successful /api/convert
\* response, the name it keeps for the Download action is the file name the
\* server returned, so that Download requests /api/download/<name> and
\* obtains the converted file.
C25_DownloadsReturnedName ==
    \A k \in Calls :
        (ConvertedOk(k) /\ client.isComplete /\ client.file = client.calls[k].file) =>
            /\ client.convertedFileName = req[client.calls[k].r].resp.body.fileName
            /\ RouteParam(RequestPath(DownloadUrl(client.convertedFileName)))
                   = outputFileName(req[client.calls[k].r])

\* C26 as stated: every pair of formats the client lets the user send has an
\* engine in the registry of the server, so no request the client makes is
\* answered as unsupported.
C26_OfferedPairsSupported ==
    /\ client.file # NullFile =>
          \A i \in 1..Len(allowedTargets(client.sourceFormat)) :
              LET inExt == toLowerCase(client.sourceFormat)
                  to == <<LowerToken(allowedTargets(client.sourceFormat)[i])>>
              IN  \/ PandocName(inExt) # "" /\ PandocName(to) # ""
                  \/ LibreCapable(inExt) /\ LibreCapable(to)
    /\ \A k \in Calls :
          LET r == client.calls[k].r
          IN  (r # 0 /\ Finished(r)) =>
                  req[r].resp # Json(500, [error |-> UnsupportedMessage(r)])

\* C29 as stated: once a call of handleConvert has ended (success, error
\* response or rejected fetch) its interval is cleared, so that no tick
\* changes progress afterwards: it stays 0 after a failure and 100 after a
\* success until the user acts.
C29_TimerStopped ==
    \A k \in Calls :
        client.calls[k].state # "pending" =>
            /\ client.calls[k].interval = "cleared"
            /\ ~ENABLED ProgressInterval(k)

\* C30 as stated: while isComplete holds, a conversion of the file that is
\* selected now has succeeded (the response of a conversion of a file that
\* was removed or replaced marks nothing complete), and isConverting and
\* isComplete do not hold together.
C30_CompleteIsCurrent ==
    /\ ~(client.isConverting /\ client.isComplete)
    /\ client.isComplete =>
          /\ client.file # NullFile
          /\ \E k \in Calls :
                /\ client.calls[k].state = "resolved"
                /\ client.calls[k].ok
                /\ client.calls[k].file = client.file

====
